---- MODULE Spec2Model ----
(***************************************************************************)
(* wordlesolve (src/main.rs): a five-letter word-guessing solver.          *)
(*                                                                         *)
(* Words are five bytes plus a 26-bit letter mask, the Pattern is the      *)
(* accumulated constraint (positive_letters, negative_letters, per_char),  *)
(* Outcome::compare produces the per-letter feedback, Pattern::refine      *)
(* folds one outcome into the pattern, Pattern::matches filters words and  *)
(* recommended_guess is the minimax search.  Bit masks are kept as the     *)
(* integers the program holds; text is a sequence of one-character         *)
(* strings.                                                                *)
(*                                                                         *)
(* Spec   : the session loop of main().                                    *)
(* FnSpec : the pure functions applied to inputs drawn from bounded sets.  *)
(***************************************************************************)
EXTENDS Integers, Sequences, FiniteSets

VARIABLES goals, dict, goal, pattern, prev, guess, outcome, search, history, pc

vars == <<goals, dict, goal, pattern, prev, guess, outcome, search, history, pc>>

(***************************************************************************)
(* Program constants and model bounds                                      *)
(***************************************************************************)
\* [u8; 5]: the length of a word
WordLen == 5
\* (1 << 26) - 1: the number of letter bits of a mask
NumLetters == 26
\* 'a' as u8
LowerA == 97
\* if goals.len() < 1000: the pool size under which the search is run
SearchThreshold == 1000
\* if length != 6: a guess line is five letters and the line terminator
LineLen == 6

\* guesses played in one modelled session
MaxRounds == 2
\* refine calls applied in a row by FnSpec
MaxRefines == 2
\* refine calls that may precede a search in FnSpec
MaxSearchRefines == 1

Pos == 1..WordLen

(***************************************************************************)
(* u32 bit operations, on the integers the masks are                       *)
(***************************************************************************)
RECURSIVE BitAnd(_, _)
\* a & b
BitAnd(a, b) ==
    IF a = 0 \/ b = 0 THEN 0
    ELSE (a % 2) * (b % 2) + 2 * BitAnd(a \div 2, b \div 2)

\* a | b
BitOr(a, b) == a + b - BitAnd(a, b)

\* a & !b (the complement is taken in u32, the result keeps a's bits only)
BitAndNot(a, b) == a - BitAnd(a, b)

(***************************************************************************)
(* Text and Word                                                           *)
(***************************************************************************)
Alphabet == <<"a", "b", "c", "d", "e", "f", "g", "h", "i", "j", "k", "l", "m",
              "n", "o", "p", "q", "r", "s", "t", "u", "v", "w", "x", "y", "z">>

\* char::is_ascii_lowercase
is_ascii_lowercase(c) == \E k \in 1..NumLetters : Alphabet[k] = c

\* the byte of a lowercase letter (text.as_bytes())
as_byte(c) == LowerA - 1 + CHOOSE k \in 1..NumLetters : Alphabet[k] = c

\* fn to_letter_mask(c: u8) -> u32 { 1 << (c - 'a') }
to_letter_mask(c) == 2 ^ (c - LowerA)

RECURSIVE LettersOf(_, _)
\* for b in bytes { letters |= to_letter_mask(b) }, from position i on
LettersOf(bytes, i) ==
    IF i > WordLen THEN 0
    ELSE BitOr(to_letter_mask(bytes[i]), LettersOf(bytes, i + 1))

\* Word::new
Word_new(text) ==
    LET bytes == [i \in Pos |-> as_byte(text[i])]
    IN  [bytes |-> bytes, letters |-> LettersOf(bytes, 1)]

(***************************************************************************)
(* Pattern                                                                 *)
(***************************************************************************)
\* Pattern::new
Pattern_new ==
    [positive_letters |-> 0,
     negative_letters |-> 0,
     per_char |-> [i \in Pos |-> 2 ^ NumLetters - 1]]

\* Pattern::matches
matches(p, word) ==
    IF BitAnd(word.letters, p.positive_letters) # p.positive_letters THEN FALSE
    ELSE IF BitAnd(word.letters, p.negative_letters) # 0 THEN FALSE
    ELSE \A i \in Pos : BitAnd(p.per_char[i], to_letter_mask(word.bytes[i])) # 0

\* a ^ b
BitXor(a, b) == a + b - 2 * BitAnd(a, b)

\* refine_letter with the Nowhere branch assigning the complement (= for &=)
refine_letter_assign(p, word, letter_outcomes, i) ==
    LET m == to_letter_mask(word.bytes[i])
    IN  CASE letter_outcomes[i] = "Nowhere" ->
                [p EXCEPT !.negative_letters = BitOr(@, m),
                          !.per_char = [x \in Pos |-> 2 ^ NumLetters - 1 - m]]
          [] letter_outcomes[i] = "Elsewhere" ->
                [p EXCEPT !.positive_letters = BitOr(@, m),
                          !.per_char[i] = BitAndNot(@, m)]
          [] letter_outcomes[i] = "Here" ->
                [p EXCEPT !.positive_letters = BitOr(@, m),
                          !.per_char[i] = m]

\* refine_letter with the Nowhere branch toggling the bit (^= for &= !)
refine_letter_toggle(p, word, letter_outcomes, i) ==
    LET m == to_letter_mask(word.bytes[i])
    IN  CASE letter_outcomes[i] = "Nowhere" ->
                [p EXCEPT !.negative_letters = BitOr(@, m),
                          !.per_char = [x \in Pos |-> BitXor(@[x], m)]]
          [] letter_outcomes[i] = "Elsewhere" ->
                [p EXCEPT !.positive_letters = BitOr(@, m),
                          !.per_char[i] = BitAndNot(@, m)]
          [] letter_outcomes[i] = "Here" ->
                [p EXCEPT !.positive_letters = BitOr(@, m),
                          !.per_char[i] = m]

\* refine_letter with the Elsewhere branch clearing the letter at every position
refine_letter_everywhere(p, word, letter_outcomes, i) ==
    LET m == to_letter_mask(word.bytes[i])
    IN  CASE letter_outcomes[i] = "Nowhere" ->
                [p EXCEPT !.negative_letters = BitOr(@, m),
                          !.per_char = [x \in Pos |-> BitAndNot(@[x], m)]]
          [] letter_outcomes[i] = "Elsewhere" ->
                [p EXCEPT !.positive_letters = BitOr(@, m),
                          !.per_char = [x \in Pos |-> BitAndNot(@[x], m)]]
          [] letter_outcomes[i] = "Here" ->
                [p EXCEPT !.positive_letters = BitOr(@, m),
                          !.per_char[i] = m]

\* one iteration of the loop of Pattern::refine, for position i
refine_letter(p, word, letter_outcomes, i) ==
    LET m == to_letter_mask(word.bytes[i])
    IN  CASE letter_outcomes[i] = "Nowhere" ->
                [p EXCEPT !.negative_letters = BitOr(@, m),
                          !.per_char = [x \in Pos |-> BitAndNot(@[x], m)]]
          [] letter_outcomes[i] = "Elsewhere" ->
                [p EXCEPT !.positive_letters = BitOr(@, m),
                          !.per_char[i] = BitAndNot(@, m)]
          [] letter_outcomes[i] = "Here" ->
                [p EXCEPT !.positive_letters = BitOr(@, m),
                          !.per_char[i] = m]

RECURSIVE refine_from(_, _, _, _)
\* the loop of Pattern::refine from position i on, in slot order
refine_from(p, word, letter_outcomes, i) ==
    IF i > WordLen THEN p
    ELSE refine_from(refine_letter(p, word, letter_outcomes, i),
                     word, letter_outcomes, i + 1)

\* Pattern::refine
refine(p, word, letter_outcomes) == refine_from(p, word, letter_outcomes, 1)

(***************************************************************************)
(* Outcome                                                                 *)
(***************************************************************************)
LetterOutcome == {"Nowhere", "Elsewhere", "Here"}

\* compare asking whether the goal's letter occurs in the guess
compare_swapped(goalWord, guessWord) ==
    [i \in Pos |->
        IF goalWord.bytes[i] = guessWord.bytes[i] THEN "Here"
        ELSE IF \E j \in Pos : guessWord.bytes[j] = goalWord.bytes[i] THEN "Elsewhere"
        ELSE "Nowhere"]

\* compare testing containment before equality
compare_contains_first(goalWord, guessWord) ==
    [i \in Pos |->
        IF \E j \in Pos : goalWord.bytes[j] = guessWord.bytes[i] THEN "Elsewhere"
        ELSE IF goalWord.bytes[i] = guessWord.bytes[i] THEN "Here"
        ELSE "Nowhere"]

\* compare with the reference game's budget for repeated letters
compare_budgeted(goalWord, guessWord) ==
    [i \in Pos |->
        LET c == guessWord.bytes[i]
            avail == Cardinality({j \in Pos : goalWord.bytes[j] = c /\ guessWord.bytes[j] # c})
            used == Cardinality({j \in 1..(i - 1) : guessWord.bytes[j] = c /\ goalWord.bytes[j] # c})
        IN  IF goalWord.bytes[i] = c THEN "Here"
            ELSE IF used < avail THEN "Elsewhere"
            ELSE "Nowhere"]

\* Outcome::compare
compare(goalWord, guessWord) ==
    [i \in Pos |->
        IF goalWord.bytes[i] = guessWord.bytes[i] THEN "Here"
        ELSE IF \E j \in Pos : goalWord.bytes[j] = guessWord.bytes[i] THEN "Elsewhere"
        ELSE "Nowhere"]

(***************************************************************************)
(* recommended_guess                                                       *)
(***************************************************************************)
\* lines 125-127: the outcome of guess against goal folded into a copy of pattern
hypothetical_pattern(p, goalWord, guessWord) ==
    refine(p, guessWord, compare(goalWord, guessWord))

\* line 128: minus the number of goal words the hypothetical pattern matches
confidence_for(p, goalList, goalWord, guessWord) ==
    LET h == hypothetical_pattern(p, goalWord, guessWord)
    IN  0 - Cardinality({k \in 1..Len(goalList) : matches(h, goalList[k])})

\* lines 124-129: Iterator::min over the goals (goalList is not empty)
min_confidence(p, goalList, guessWord) ==
    LET cs == {confidence_for(p, goalList, goalList[k], guessWord) : k \in 1..Len(goalList)}
    IN  CHOOSE c \in cs : \A d \in cs : c <= d

RECURSIVE max_by_key_from(_, _, _)
\* Iterator::max_by_key: the running maximum is replaced by every later
\* element whose key is not smaller
max_by_key_from(s, k, acc) ==
    IF k > Len(s) THEN acc
    ELSE max_by_key_from(s, k + 1, IF acc.confidence > s[k].confidence THEN acc ELSE s[k])

RECURSIVE max_by_key_first_from(_, _, _)
max_by_key_first_from(s, k, acc) ==
    IF k > Len(s) THEN acc
    ELSE max_by_key_first_from(s, k + 1, IF s[k].confidence > acc.confidence THEN s[k] ELSE acc)

\* max_by_key keeping the first of several equal maxima
max_by_key_first(s) == max_by_key_first_from(s, 2, s[1])

\* Iterator::max_by_key(|p| p.1) on a sequence that is not empty
max_by_key(s) == max_by_key_from(s, 2, s[1])

\* the closure best_from panics (unwrap on None) when the pool it maps is not
\* empty and goals is, or when the pool itself is empty
best_from_panics(goalList, pool) == Len(pool) = 0 \/ Len(goalList) = 0

\* the closure best_from of recommended_guess, for a pool it does not panic on
best_from(p, goalList, pool) ==
    max_by_key([k \in 1..Len(pool) |->
                  [guess |-> pool[k],
                   confidence |-> min_confidence(p, goalList, pool[k])]])

NoWord == [bytes |-> <<>>, letters |-> 0]
NoPair == [guess |-> NoWord, confidence |-> 0]

\* recommended_guess preferring the goal pool only on equal scores
recommended_guess_strict(p, goalList, dictList) ==
    IF best_from_panics(goalList, dictList) \/ best_from_panics(goalList, goalList)
    THEN [status |-> "unwrap_none", bd |-> NoPair, bg |-> NoPair, result |-> NoPair]
    ELSE LET bd == best_from(p, goalList, dictList)
             bg == best_from(p, goalList, goalList)
         IN  IF ~(bd.confidence >= bg.confidence)
             THEN [status |-> "assert_failed", bd |-> bd, bg |-> bg, result |-> NoPair]
             ELSE [status |-> "ok", bd |-> bd, bg |-> bg,
                   result |-> IF bg.confidence >= bd.confidence THEN bg ELSE bd]

\* recommended_guess: the two searches, the assertion and the choice
recommended_guess(p, goalList, dictList) ==
    IF best_from_panics(goalList, dictList) \/ best_from_panics(goalList, goalList)
    THEN [status |-> "unwrap_none", bd |-> NoPair, bg |-> NoPair, result |-> NoPair]
    ELSE LET bd == best_from(p, goalList, dictList)
             bg == best_from(p, goalList, goalList)
         IN  IF ~(bd.confidence >= bg.confidence)
             THEN [status |-> "assert_failed", bd |-> bd, bg |-> bg, result |-> NoPair]
             ELSE [status |-> "ok", bd |-> bd, bg |-> bg,
                   result |-> IF bg.confidence + 1 >= bd.confidence THEN bg ELSE bd]

NoSearch == [status |-> "none", bd |-> NoPair, bg |-> NoPair, result |-> NoPair]

(***************************************************************************)
(* Inputs                                                                  *)
(***************************************************************************)
apple == <<"a", "p", "p", "l", "e">>
angle == <<"a", "n", "g", "l", "e">>
ample == <<"a", "m", "p", "l", "e">>
agile == <<"a", "g", "i", "l", "e">>
chock == <<"c", "h", "o", "c", "k">>
bills == <<"b", "i", "l", "l", "s">>
fills == <<"f", "i", "l", "l", "s">>
hills == <<"h", "i", "l", "l", "s">>
mills == <<"m", "i", "l", "l", "s">>
thumb == <<"t", "h", "u", "m", "b">>

\* goals.txt and extra.txt, one word per line
GoalsTxt == <<apple, angle, ample>>
ExtraTxt == <<chock>>
\* args[1]: a goal of the list, and a word that is not in goals.txt
GoalArgs == {angle, ample, chock}
\* the lines read from stdin: guesses, and lines the loop rejects
GuessLines == {Append(apple, "\n"), Append(agile, "\n"), Append(chock, "\n"),
               <<"a", "p", "\n">>, Append(<<"A", "p", "p", "l", "e">>, "\n")}

\* read_dict on a file whose lines are all five lowercase letters
read_dict(lines) == [k \in 1..Len(lines) |-> Word_new(lines[k])]

\* slice::shuffle: any order of the same elements
shuffle(s) ==
    {[k \in 1..Len(s) |-> s[f[k]]] :
        f \in {g \in [1..Len(s) -> 1..Len(s)] : \A a, b \in 1..Len(s) : g[a] = g[b] => a = b}}

\* the dictionary pool left without the goal words
extend_dropped(dictList, goalList) == dictList

\* line 156: dict.extend(&goals)
extend(dictList, goalList) == dictList \o goalList

RECURSIVE retain(_, _)
\* goals.retain(|w| pattern.matches(*w)): the matching words, in order
retain(goalList, p) ==
    IF goalList = <<>> THEN <<>>
    ELSE IF matches(p, Head(goalList)) THEN <<Head(goalList)>> \o retain(Tail(goalList), p)
    ELSE retain(Tail(goalList), p)

\* line 180: length != 6 || buf[0..5].chars().any(|c| !c.is_ascii_lowercase())
invalid_line(line) ==
    Len(line) # LineLen \/ \E i \in Pos : ~is_ascii_lowercase(line[i])

(***************************************************************************)
(* Spec: the session loop of main                                          *)
(***************************************************************************)
\* lines 154-165: the state main enters its loop in
Init ==
    \E a \in GoalArgs :
    \E g \in shuffle(read_dict(GoalsTxt)) :
    \E d \in shuffle(extend(read_dict(ExtraTxt), read_dict(GoalsTxt))) :
        /\ goals = g
        /\ dict = d
        /\ goal = Word_new(a)
        /\ pattern = Pattern_new
        /\ prev = Pattern_new
        /\ guess = NoWord
        /\ outcome = <<>>
        /\ search = NoSearch
        /\ history = <<>>
        /\ pc = "loop"

\* lines 167-176: filter the goal pool, then search when it is small enough
LoopTop ==
    /\ pc = "loop"
    /\ LET kept == retain(goals, pattern)
           found == IF Len(kept) < SearchThreshold
                    THEN recommended_guess(pattern, kept, dict)
                    ELSE NoSearch
       IN  /\ goals' = kept
           /\ search' = found
           /\ pc' = IF found.status \in {"unwrap_none", "assert_failed"}
                    THEN "panicked" ELSE "read"
    /\ UNCHANGED <<dict, goal, pattern, prev, guess, outcome, history>>

\* lines 178-190: read a line; a rejected line restarts the loop, a guess is
\* compared with the goal and folded into the pattern
ReadLine ==
    /\ pc = "read"
    /\ \E line \in GuessLines :
        IF invalid_line(line)
        THEN /\ pc' = "loop"
             /\ UNCHANGED <<goals, dict, goal, pattern, prev, guess, outcome, search, history>>
        ELSE /\ Len(history) < MaxRounds
             /\ LET w == Word_new(SubSeq(line, 1, WordLen))
                    o == compare(goal, w)
                IN  /\ guess' = w
                    /\ outcome' = o
                    /\ prev' = pattern
                    /\ pattern' = refine(pattern, w, o)
                    /\ history' = Append(history, [guess |-> w, outcome |-> o])
             /\ pc' = "loop"
             /\ UNCHANGED <<goals, dict, goal, search>>

Next == LoopTop \/ ReadLine

Spec == Init /\ [][Next]_vars

(***************************************************************************)
(* FnSpec: compare, refine and recommended_guess on drawn inputs           *)
(***************************************************************************)
\* the words compare and refine are applied to
FnWords == {Word_new(apple), Word_new(angle), Word_new(ample), Word_new(chock)}

\* outcomes that need not come from any goal: the three uniform ones, and
\* Nowhere everywhere but for one Here
OutcomePool ==
    {[i \in Pos |-> t] : t \in LetterOutcome}
        \cup {[i \in Pos |-> IF i = k THEN "Here" ELSE "Nowhere"] : k \in Pos}

\* goal pools with a dictionary pool that holds every goal word
SearchPools ==
    {[goals |-> read_dict(<<bills, fills, hills, mills>>),
      dict  |-> read_dict(<<thumb, bills, fills, hills, mills>>)],
     [goals |-> read_dict(<<bills, fills, hills>>),
      dict  |-> read_dict(<<fills, thumb, hills, bills>>)],
     [goals |-> read_dict(<<bills, fills>>),
      dict  |-> read_dict(<<hills, fills, bills>>)],
     [goals |-> read_dict(<<apple, angle, ample>>),
      dict  |-> read_dict(<<chock, apple, angle, ample>>)],
     [goals |-> read_dict(<<ample, apple>>),
      dict  |-> read_dict(<<chock, apple, agile, ample>>)]}

FnInit ==
    /\ goals = <<>>
    /\ dict = <<>>
    /\ goal = NoWord
    /\ pattern = Pattern_new
    /\ prev = Pattern_new
    /\ guess = NoWord
    /\ outcome = <<>>
    /\ search = NoSearch
    /\ history = <<>>
    /\ pc = "fn"

\* pattern.refine(guess, Outcome::compare(goal, guess)), as lines 125-127 and
\* 188-190 call it
RefineCompared ==
    /\ pc = "fn"
    /\ Len(history) < MaxRefines
    /\ \E g \in FnWords, w \in FnWords :
        LET o == compare(g, w)
        IN  /\ goal' = g
            /\ guess' = w
            /\ outcome' = o
            /\ prev' = pattern
            /\ pattern' = refine(pattern, w, o)
            /\ history' = Append(history, [guess |-> w, outcome |-> o])
    /\ UNCHANGED <<goals, dict, search, pc>>

\* pattern.refine(guess, outcome) with an outcome of the caller's choice
RefineAny ==
    /\ pc = "fn"
    /\ Len(history) < MaxRefines
    /\ \E w \in FnWords, o \in OutcomePool :
        /\ guess' = w
        /\ outcome' = o
        /\ prev' = pattern
        /\ pattern' = refine(pattern, w, o)
        /\ history' = Append(history, [guess |-> w, outcome |-> o])
    /\ UNCHANGED <<goals, dict, goal, search, pc>>

\* recommended_guess(&pattern, &goals, &dict) on the pattern built so far
Search ==
    /\ pc = "fn"
    /\ Len(history) <= MaxSearchRefines
    /\ \E pools \in SearchPools :
        /\ goals' = pools.goals
        /\ dict' = pools.dict
        /\ search' = recommended_guess(pattern, pools.goals, pools.dict)
    /\ pc' = "searched"
    /\ UNCHANGED <<goal, pattern, prev, guess, outcome, history>>

FnNext == RefineCompared \/ RefineAny \/ Search

FnSpec == FnInit /\ [][FnNext]_vars

(***************************************************************************)
(* Vocabulary of the properties                                            *)
(***************************************************************************)
Range(s) == {s[k] : k \in 1..Len(s)}

\* every bit of mask a is a bit of mask b
SubMask(a, b) == BitAnd(a, b) = a

AllNowhere == [i \in Pos |-> "Nowhere"]

\* positive_letters and negative_letters share no letter
Disjoint(p) == BitAnd(p.positive_letters, p.negative_letters) = 0

\* every per_char set of q is within the one of p
Narrowed(p, q) == \A i \in Pos : SubMask(q.per_char[i], p.per_char[i])

\* the letter of word at position i is allowed there by p
AllowedAt(p, word, i) == BitAnd(p.per_char[i], to_letter_mask(word.bytes[i])) # 0

\* no letter of negative_letters is allowed at any position
NegativeCleared(p) == \A i \in Pos : BitAnd(p.per_char[i], p.negative_letters) = 0

\* the goal words left when guess w is played against goal g under pattern p
Remaining(p, G, g, w) ==
    Cardinality({k \in 1..Len(G) : matches(refine(p, w, compare(g, w)), G[k])})

\* the worst case of guess w: the most goal words any goal of G leaves
Worst(p, G, w) ==
    LET ns == {Remaining(p, G, G[k], w) : k \in 1..Len(G)}
    IN  CHOOSE n \in ns : \A m \in ns : m <= n

\* the least worst case over the pool P
Best(p, G, P) ==
    LET ws == {Worst(p, G, P[k]) : k \in 1..Len(P)}
    IN  CHOOSE n \in ws : \A m \in ws : n <= m

\* the positions of the candidates of P that reach the least worst case
BestAt(p, G, P) ==
    LET ws == {<<k, Worst(p, G, P[k])>> : k \in 1..Len(P)}
    IN  {x[1] : x \in {y \in ws : \A z \in ws : y[2] <= z[2]}}

FirstOf(S) == CHOOSE k \in S : \A j \in S : k <= j
LastOf(S) == CHOOSE k \in S : \A j \in S : j <= k

\* a search of the session has run on the pools of the current state
Searched == pc = "read" /\ search.status = "ok"

(***************************************************************************)
(* C1 (Spec).  Every outcome the session computes follows the containment  *)
(* rule: slot i is Here iff the guess and the goal agree at i, Elsewhere   *)
(* iff they differ at i and the guessed letter occurs somewhere in the     *)
(* goal, Nowhere iff the guessed letter occurs nowhere in the goal.        *)
(***************************************************************************)
C1_ContainmentRule ==
    guess # NoWord =>
        \A i \in Pos :
            /\ outcome[i] \in LetterOutcome
            /\ outcome[i] = "Here" <=> guess.bytes[i] = goal.bytes[i]
            /\ outcome[i] = "Elsewhere" <=>
                   /\ guess.bytes[i] # goal.bytes[i]
                   /\ \E j \in Pos : goal.bytes[j] = guess.bytes[i]
            /\ outcome[i] = "Nowhere" <=> \A j \in Pos : goal.bytes[j] # guess.bytes[i]

\* an outcome with all three tags has been computed
C1_Witness ==
    /\ guess # NoWord
    /\ \A t \in LetterOutcome : \E i \in Pos : outcome[i] = t

(***************************************************************************)
(* C3 (Spec).  positive_letters and negative_letters of the live pattern   *)
(* share no letter in any state, and neither do those of any hypothetical  *)
(* pattern the search builds from the filtered goal pool and either pool.  *)
(***************************************************************************)
C3_Disjoint ==
    /\ Disjoint(pattern)
    /\ pc = "read" =>
          \A g \in Range(goals), w \in Range(goals) \cup Range(dict) :
              Disjoint(hypothetical_pattern(pattern, g, w))

\* a guess with a repeated letter has been folded in, letters are known on
\* both sides, and a search has run on what is left of the goal pool
C3_Witness ==
    /\ Searched
    /\ history # <<>>
    /\ \E i, j \in Pos : i # j /\ guess.bytes[i] = guess.bytes[j]
    /\ pattern.positive_letters # 0
    /\ pattern.negative_letters # 0

(***************************************************************************)
(* C5 (Spec).  When the goal word is in goals.txt, it matches the live     *)
(* pattern and is in the goal pool in every state of the session.          *)
(***************************************************************************)
C5_GoalStays ==
    goal \in Range(read_dict(GoalsTxt)) =>
        /\ matches(pattern, goal)
        /\ goal \in Range(goals)

\* two guesses in, the pool has been filtered down and still holds the goal
C5_Witness ==
    /\ goal \in Range(read_dict(GoalsTxt))
    /\ Len(history) >= 2
    /\ pc = "read"
    /\ Len(goals) < Len(GoalsTxt)
    /\ pattern # prev

(***************************************************************************)
(* C6 (Spec).  The assertion bdc >= bgc of recommended_guess holds in      *)
(* every round: the best score over the dictionary pool is at least the    *)
(* best score over the goal pool.                                          *)
(***************************************************************************)
C6_AssertionHolds ==
    /\ search.status # "assert_failed"
    /\ search.status = "ok" => search.bd.confidence >= search.bg.confidence

\* a search after a guess, on a goal pool of several words
C6_Witness ==
    /\ Searched
    /\ history # <<>>
    /\ Len(goals) >= 2
    /\ Range(goals) \subseteq Range(dict)

(***************************************************************************)
(* C7 (Spec).  As claimed: of the candidates of a pool that share the best *)
(* score, the search returns the one that comes first in the pool.         *)
(***************************************************************************)
C7_FirstSeenWins ==
    Searched =>
        /\ search.bg.guess = goals[FirstOf(BestAt(pattern, goals, goals))]
        /\ search.bd.guess = dict[FirstOf(BestAt(pattern, goals, dict))]

(***************************************************************************)
(* C7 (Spec), amended.  Of the candidates of a pool that share the best    *)
(* score, the search returns the one that comes last in the pool.          *)
(***************************************************************************)
C7_LastSeenWins ==
    Searched =>
        /\ search.bg.guess = goals[LastOf(BestAt(pattern, goals, goals))]
        /\ search.bd.guess = dict[LastOf(BestAt(pattern, goals, dict))]

\* a search in which several candidates of each pool share the best score
C7_Witness ==
    /\ Searched
    /\ Cardinality(BestAt(pattern, goals, goals)) >= 2
    /\ Cardinality(BestAt(pattern, goals, dict)) >= 2

(***************************************************************************)
(* C8 (Spec).  As claimed: whenever the session has invoked the search,    *)
(* the filtered goal pool held at least one word, so the search never      *)
(* aborted on an empty pool.                                               *)
(***************************************************************************)
C8_SearchPoolNonEmpty ==
    search.status # "none" => (Len(goals) >= 1 /\ search.status # "unwrap_none")

(***************************************************************************)
(* C10 (Spec).  As claimed: guess "apple" against goal "angle" yields      *)
(* Here, Elsewhere, Nowhere, Nowhere, Elsewhere.                           *)
(***************************************************************************)
C10_AsClaimed ==
    (goal = Word_new(angle) /\ guess = Word_new(apple)) =>
        outcome = <<"Here", "Elsewhere", "Nowhere", "Nowhere", "Elsewhere">>

(***************************************************************************)
(* C10 (Spec), amended.  Guess "apple" against goal "angle" yields         *)
(* Here, Nowhere, Nowhere, Here, Here.                                     *)
(***************************************************************************)
C10_AppleAgainstAngle ==
    (goal = Word_new(angle) /\ guess = Word_new(apple)) =>
        outcome = <<"Here", "Nowhere", "Nowhere", "Here", "Here">>

\* "apple" has been guessed in a session whose goal is "angle"
C10_Witness == goal = Word_new(angle) /\ guess = Word_new(apple) /\ Len(outcome) = WordLen

(***************************************************************************)
(* C2 (FnSpec).  On every pattern, nonempty goal pool G and dictionary     *)
(* pool D holding G, recommended_guess returns a guess of G with score     *)
(* -Best(G) when Best(G) <= Best(D) + 1 and otherwise a guess of D with    *)
(* score -Best(D); the worst case of the returned guess is minus the       *)
(* returned score; and on a two-word goal pool the returned guess does not *)
(* leave both goals possible when some candidate separates them.           *)
(***************************************************************************)
C2_Minimax ==
    pc = "searched" =>
        LET worst == {<<w, Worst(pattern, goals, w)>> : w \in Range(dict)}
            least(P) == CHOOSE n \in {x[2] : x \in {y \in worst : y[1] \in P}} :
                            \A x \in worst : x[1] \in P => n <= x[2]
            bG == least(Range(goals))
            bD == least(Range(dict))
            r  == search.result
        IN  /\ search.status = "ok"
            /\ Range(goals) \subseteq Range(dict)
            /\ IF bG <= bD + 1
               THEN r.guess \in Range(goals) /\ r.confidence = 0 - bG
               ELSE r.guess \in Range(dict) /\ r.confidence = 0 - bD
            /\ <<r.guess, 0 - r.confidence>> \in worst
            /\ (Len(goals) = 2 /\ \E x \in worst : x[2] <= 1)
                   => \E x \in worst : x[1] = r.guess /\ x[2] <= 1

\* a search in which the dictionary pool beats the goal pool by more than one,
\* on a pattern that a refine call has narrowed
C2_Witness ==
    /\ pc = "searched"
    /\ history # <<>>
    /\ Best(pattern, goals, goals) > Best(pattern, goals, dict) + 1
    /\ search.result.guess \notin Range(goals)

(***************************************************************************)
(* C4 (FnSpec).  As claimed: after refine with any guess and any outcome,  *)
(* every per_char set is within its value before the call.                 *)
(***************************************************************************)
C4_AnyOutcomeNarrows ==
    history # <<>> => Narrowed(prev, pattern)

(***************************************************************************)
(* C4 (FnSpec), amended.  After refine with a guess and an outcome whose   *)
(* Here slots each name a letter the pattern still allowed at that         *)
(* position (so after every outcome compare(g, guess) of a word g that     *)
(* matches the pattern), every per_char set is within its value before the *)
(* call.                                                                   *)
(***************************************************************************)
C4_AllowedHereNarrows ==
    /\ (/\ history # <<>>
        /\ \A i \in Pos : outcome[i] = "Here" => AllowedAt(prev, guess, i))
           => Narrowed(prev, pattern)
    /\ (/\ history # <<>>
        /\ \E g \in FnWords : matches(prev, g) /\ outcome = compare(g, guess))
           => \A i \in Pos : outcome[i] = "Here" => AllowedAt(prev, guess, i)

\* a second refine, with a Here slot on an allowed letter, that narrowed an
\* already narrowed pattern
C4_Witness ==
    /\ Len(history) >= 2
    /\ prev # Pattern_new
    /\ pattern # prev
    /\ \E i \in Pos : outcome[i] = "Here"
    /\ \A i \in Pos : outcome[i] = "Here" => AllowedAt(prev, guess, i)
    /\ \E g \in FnWords : matches(prev, g) /\ outcome = compare(g, guess)

\* the refine calls before the last one all took compare(g, guess) of one word g
ConsistentBefore ==
    \E g \in FnWords :
        \A k \in 1..(Len(history) - 1) : history[k].outcome = compare(g, history[k].guess)

\* the last refine call took the all-Nowhere outcome for a guess whose letters
\* were all in negative_letters
ExcludedAgain ==
    /\ history # <<>>
    /\ outcome = AllNowhere
    /\ SubMask(guess.letters, prev.negative_letters)

(***************************************************************************)
(* C9 (FnSpec).  As claimed: on a pattern reached by any refine calls,     *)
(* refine with the all-Nowhere outcome for a guess whose letters are all   *)
(* in negative_letters changes neither positive_letters nor per_char.      *)
(***************************************************************************)
C9_AnyPatternUnchanged ==
    ExcludedAgain =>
        /\ pattern.positive_letters = prev.positive_letters
        /\ pattern.per_char = prev.per_char

(***************************************************************************)
(* C9 (FnSpec), amended.  On a pattern reached by refine calls that each   *)
(* took compare(g, guess) of one fixed word g (and on any pattern in which *)
(* no letter of negative_letters is allowed at a position), refine with    *)
(* the all-Nowhere outcome for a guess whose letters are all in            *)
(* negative_letters changes neither positive_letters nor per_char.         *)
(***************************************************************************)
C9_ConsistentPatternUnchanged ==
    (ExcludedAgain /\ (ConsistentBefore \/ NegativeCleared(prev))) =>
        /\ pattern.positive_letters = prev.positive_letters
        /\ pattern.per_char = prev.per_char

\* after a refine with the outcome of one goal, a guess made of excluded
\* letters has been folded in with the all-Nowhere outcome
C9_Witness ==
    /\ Len(history) >= 2
    /\ ExcludedAgain
    /\ ConsistentBefore
    /\ prev.negative_letters # 0

====
